---- MODULE Spec2Model ----
\* mrdle: a terminal Wordle clone and solver (mrdle.cpp, mrdle.h).
\* The model covers the word store and its load from a word file, the guess
\* evaluator CheckWordGuess, the hint filter CheckWordAgainstHint, the
\* solution finder ListWords, the game loop TerminalPlay and main.
\*
\* A std::string is a sequence of one-character strings: "rebus" is
\* <<"r","e","b","u","s">>. The code indexes strings from 0; At(s, i) is s[i].
EXTENDS Integers, Sequences, FiniteSets, TLC

VARIABLES
    m_words,        \* mrdle::m_words, the word list
    pc,             \* the operation that ran last, or where the program is
    secret_word,    \* CheckWordGuess: argument secret_word
    guess_word,     \* CheckWordGuess: argument guess_word
    guess_ok,       \* CheckWordGuess: return value
    result,         \* CheckWordGuess: the caller's result string
    cand_word,      \* CheckWordAgainstHint: argument word
    cand_hint,      \* CheckWordAgainstHint: argument hint, <<guess, feedback>>
    hint_ok,        \* CheckWordAgainstHint: return value
    hint_vect,      \* ListWords: argument hints (ProgOpts::hint_vect)
    list_status,    \* ListWords: return value
    list_out,       \* ListWords: the words printed to standard output, in order
    list_none,      \* ListWords: whether "<No words matched>" was printed
    word_file,      \* the lines of the word file (ProgOpts::word_file)
    list_word,      \* IsWordInList: argument word
    in_list,        \* IsWordInList: return value
    pass_i,         \* CheckWordGuess, second pass: i
    find_offset,    \* CheckWordGuess, second pass: offset
    find_count,     \* searches made for the guess position pass_i so far
    opt_list,       \* ProgOpts::list
    opt_secret,     \* ProgOpts::secret_word
    guess_number,   \* TerminalPlay: guess_number
    char_map,       \* TerminalPlay: char_map, a letter to its result code
    exit_status,    \* the value main returned
    random_empty,   \* whether GetRandomWord was called on an empty m_words
    is_open,        \* whether the word file can be opened
    p_stats,        \* the PlayerStats object: its counters and histogram
    stats_env,      \* the home directory, the stats directory and the stats
                    \* file, and the default of the save parameter
    save_ret        \* PlayerStats::Save: return value

guess_vars == <<secret_word, guess_word, guess_ok, result>>
cand_vars == <<cand_word, cand_hint, hint_ok>>
list_vars == <<hint_vect, list_status, list_out, list_none>>
member_vars == <<list_word, in_list>>
loop_vars == <<pass_i, find_offset, find_count>>
play_vars == <<opt_list, opt_secret, guess_number, char_map, exit_status,
               random_empty>>

file_vars == <<word_file, is_open>>
stats_vars == <<p_stats, stats_env, save_ret>>

vars == <<m_words, pc, guess_vars, cand_vars, list_vars, file_vars,
          member_vars, loop_vars, play_vars, stats_vars>>

-----------------------------------------------------------------------------
\* Bounds of the model.

\* Longest word of the generated word lists.
MaxLen == 3
\* Most lines of a generated word file.
MaxWords == 2
\* Most hints of a generated hint list.
MaxHints == 2
\* Most hints of a hint list in the README scenario.
MaxScenarioHints == 3

\* Letters of the generated word files and guesses of the evaluator, and of
\* the guess words of the hints listed with.
Letters == {"a", "b"}
\* Letters of the secrets of the evaluator, of the generated words and hints
\* of the hint filter, and of the word files listed.
HintLetters == {"a", "b", "c"}

-----------------------------------------------------------------------------
\* Strings.

\* Character result codes (res_*).
res_matched == "!"
res_missing == "x"
res_mislaid == "~"
res_unknown == " "

\* std::string::npos.
npos == -1

\* The letters in alphabetical order, upper case and lower case.
UpperCase ==
    <<"A", "B", "C", "D", "E", "F", "G", "H", "I", "J", "K", "L", "M",
      "N", "O", "P", "Q", "R", "S", "T", "U", "V", "W", "X", "Y", "Z">>
LowerCase ==
    <<"a", "b", "c", "d", "e", "f", "g", "h", "i", "j", "k", "l", "m",
      "n", "o", "p", "q", "r", "s", "t", "u", "v", "w", "x", "y", "z">>

\* The character codes of the space and of the letters: the order
\* std::string comparison puts them in.
CharCode ==
    [ch \in {" "} \cup {UpperCase[k] : k \in 1..26}
                  \cup {LowerCase[k] : k \in 1..26} |->
        IF ch = " " THEN 32
        ELSE IF \E k \in 1..26 : UpperCase[k] = ch
        THEN 64 + (CHOOSE k \in 1..26 : UpperCase[k] = ch)
        ELSE 96 + (CHOOSE k \in 1..26 : LowerCase[k] = ch)]

\* s[i] of the code, i counted from 0.
At(s, i) == s[i + 1]

\* The characters of the string s, the elements of the sequence s.
Range(s) == {s[i] : i \in 1..Len(s)}

\* The strings of length n over the characters cs.
Strs(cs, n) == [1..n -> cs]

\* a < b for std::string: lexicographic by character code, a proper prefix
\* being smaller.
RECURSIVE StrLessFrom(_, _, _)
StrLessFrom(a, b, i) ==
    IF i = Len(a) THEN i < Len(b)
    ELSE IF i = Len(b) THEN FALSE
    ELSE IF CharCode[At(a, i)] < CharCode[At(b, i)] THEN TRUE
    ELSE IF CharCode[At(a, i)] > CharCode[At(b, i)] THEN FALSE
    ELSE StrLessFrom(a, b, i + 1)

StrLess(a, b) == StrLessFrom(a, b, 0)

\* s.find(ch, offset): the first position >= offset holding ch, or npos.
RECURSIVE StrFind(_, _, _)
StrFind(s, ch, offset) ==
    IF offset >= Len(s) THEN npos
    ELSE IF At(s, offset) = ch THEN offset
    ELSE StrFind(s, ch, offset + 1)

\* std::tolower(ch).
tolower(ch) ==
    IF \E k \in 1..26 : UpperCase[k] = ch
    THEN LowerCase[CHOOSE k \in 1..26 : UpperCase[k] = ch]
    ELSE ch

\* string_to_lower(s).
string_to_lower(s) == [i \in 1..Len(s) |-> tolower(s[i])]

\* The whitespace characters string_trim strips (the vertical tab, which a
\* string of this notation cannot hold, left out); the files of the model
\* hold the space only.
my_ws == {" ", "\t", "\n", "\r", "\f"}

\* s.find_first_not_of(chars), from position i on.
RECURSIVE StrFindFirstNotOf(_, _, _)
StrFindFirstNotOf(s, chars, i) ==
    IF i >= Len(s) THEN npos
    ELSE IF At(s, i) \notin chars THEN i
    ELSE StrFindFirstNotOf(s, chars, i + 1)

\* s.find_last_not_of(chars), from position i down.
RECURSIVE StrFindLastNotOf(_, _, _)
StrFindLastNotOf(s, chars, i) ==
    IF i < 0 THEN npos
    ELSE IF At(s, i) \notin chars THEN i
    ELSE StrFindLastNotOf(s, chars, i - 1)

\* s.erase(pos, count): the string without the count characters from pos on;
\* count = npos erases to the end.
StrErase(s, pos, count) ==
    LET n == IF count = npos \/ pos + count > Len(s) THEN Len(s) - pos
             ELSE count
    IN  SubSeq(s, 1, pos) \o SubSeq(s, pos + n + 1, Len(s))

\* string_trim(s): leading, then trailing whitespace is erased.
string_trim(s) ==
    LET l == StrErase(s, 0, StrFindFirstNotOf(s, my_ws, 0))
    IN  StrErase(l, StrFindLastNotOf(l, my_ws, Len(l) - 1) + 1, npos)

-----------------------------------------------------------------------------
\* The word list.

\* Inserts w into the sorted sequence ws, after the words not greater than it.
RECURSIVE InsertSorted(_, _)
InsertSorted(ws, w) ==
    IF ws = <<>> THEN <<w>>
    ELSE IF StrLess(w, Head(ws)) THEN <<w>> \o ws
    ELSE <<Head(ws)>> \o InsertSorted(Tail(ws), w)

\* std::sort(m_words.begin(), m_words.end()).
RECURSIVE SortWords(_)
SortWords(ws) ==
    IF ws = <<>> THEN <<>>
    ELSE InsertSorted(SortWords(Tail(ws)), Head(ws))

\* ReadLines keeping the words read before a line of another length.
RECURSIVE ReadLinesKeepsEarlierWords(_, _, _, _)
ReadLinesKeepsEarlierWords(lines, n, word_len, words) ==
    IF n > Len(lines) THEN [ok |-> TRUE, words |-> words]
    ELSE LET word == string_trim(lines[n])
             len == IF 0 = word_len THEN Len(word) ELSE word_len
         IN  IF Len(word) # len THEN [ok |-> FALSE, words |-> words]
             ELSE ReadLinesKeepsEarlierWords(lines, n + 1, len,
                      Append(words, string_to_lower(word)))

\* The while (std::getline(ifs, word)) loop from line n on (n from 1):
\* word_len is the length of the first line read while it was 0, words the
\* list so far. A line of another length clears the list and ends the load.
RECURSIVE ReadLines(_, _, _, _)
ReadLines(lines, n, word_len, words) ==
    IF n > Len(lines) THEN [ok |-> TRUE, words |-> words]
    ELSE LET word == string_trim(lines[n])
             len == IF 0 = word_len THEN Len(word) ELSE word_len
         IN  IF Len(word) # len THEN [ok |-> FALSE, words |-> <<>>]
             ELSE ReadLines(lines, n + 1, len,
                            Append(words, string_to_lower(word)))

\* InitWordListFile on a file that opens, given as its lines: the lines are
\* read into the cleared list, which is sorted when all of them were read.
InitWordListFile(lines) ==
    LET r == ReadLines(lines, 1, 0, <<>>)
    IN  IF r.ok THEN SortWords(r.words) ELSE r.words

\* OpenWordListFile reading a file that did not open.
OpenWordListFileReadsAnyway(opens, lines) == InitWordListFile(lines)

\* InitWordListFile on a file that may not open: when it does not, the list
\* is left cleared.
OpenWordListFile(opens, lines) ==
    IF ~opens THEN <<>> ELSE InitWordListFile(lines)

\* GetWordListCount().
GetWordListCount(words) == Len(words)

\* GetWordSize().
GetWordSize(words) == IF words = <<>> THEN 0 ELSE Len(words[1])

\* LowerBound with <= for <: the bisection of std::upper_bound.
RECURSIVE LowerBoundAsUpper(_, _, _, _)
LowerBoundAsUpper(words, word, first, count) ==
    IF count <= 0 THEN first
    ELSE LET step == count \div 2
             it == first + step
         IN  IF ~StrLess(word, At(words, it))
             THEN LowerBoundAsUpper(words, word, it + 1, count - (step + 1))
             ELSE LowerBoundAsUpper(words, word, first, step)

\* std::lower_bound(begin, end, word): the position (from 0) of the first
\* element not less than word, by bisection of [first, first + count).
RECURSIVE LowerBound(_, _, _, _)
LowerBound(words, word, first, count) ==
    IF count <= 0 THEN first
    ELSE LET step == count \div 2
             it == first + step
         IN  IF StrLess(At(words, it), word)
             THEN LowerBound(words, word, it + 1, count - (step + 1))
             ELSE LowerBound(words, word, first, step)

\* IsWordInList(word).
IsWordInList(words, word) ==
    LET it == LowerBound(words, word, 0, Len(words))
    IN  it # Len(words) /\ At(words, it) = word

-----------------------------------------------------------------------------
\* CheckWordGuess.

\* FirstPass finding no exact match.
FirstPassAllUnknown(secret, guess) ==
    [i \in 1..Len(secret) |-> res_unknown]

\* First pass: exact matches; every other position is left unprocessed.
FirstPass(secret, guess) ==
    [i \in 1..Len(secret) |->
        IF guess[i] = secret[i] THEN res_matched ELSE res_unknown]

\* SearchSecret without the loop back: an occurrence at an exact match ends
\* the search with Absent.
SearchSecretNoRetry(secret, ch, res, offset) ==
    LET p == StrFind(secret, ch, offset)
    IN  IF p = npos THEN res_missing
        ELSE IF At(res, p) # res_matched THEN res_mislaid
        ELSE res_missing

\* The while (1) loop of the second pass for the letter ch: the code of the
\* guess position it resolves. res is the result string at that time.
RECURSIVE SearchSecret(_, _, _, _)
SearchSecret(secret, ch, res, offset) ==
    LET p == StrFind(secret, ch, offset)
    IN  IF p = npos THEN res_missing
        ELSE IF At(res, p) # res_matched THEN res_mislaid
        ELSE SearchSecret(secret, ch, res, p + 1)

\* SecondPass starting each search after the guess position.
RECURSIVE SecondPassSearchesOnward(_, _, _, _)
SecondPassSearchesOnward(secret, guess, res, i) ==
    IF i >= Len(secret) THEN res
    ELSE IF At(res, i) # res_unknown
    THEN SecondPassSearchesOnward(secret, guess, res, i + 1)
    ELSE SecondPassSearchesOnward(secret, guess,
             [res EXCEPT ![i + 1] =
                  SearchSecret(secret, At(guess, i), res, i + 1)],
             i + 1)

\* SecondPass ending one position early.
RECURSIVE SecondPassStopsEarly(_, _, _, _)
SecondPassStopsEarly(secret, guess, res, i) ==
    IF i >= Len(secret) - 1 THEN res
    ELSE IF At(res, i) # res_unknown
    THEN SecondPassStopsEarly(secret, guess, res, i + 1)
    ELSE SecondPassStopsEarly(secret, guess,
             [res EXCEPT ![i + 1] = SearchSecret(secret, At(guess, i), res, 0)],
             i + 1)

\* SecondPass searching the guess word where it should search the secret.
RECURSIVE SecondPassSearchesGuess(_, _, _, _)
SecondPassSearchesGuess(secret, guess, res, i) ==
    IF i >= Len(secret) THEN res
    ELSE IF At(res, i) # res_unknown
    THEN SecondPassSearchesGuess(secret, guess, res, i + 1)
    ELSE SecondPassSearchesGuess(secret, guess,
             [res EXCEPT ![i + 1] = SearchSecret(guess, At(guess, i), res, 0)],
             i + 1)

\* Second pass, from position i on: the positions the first pass left
\* unprocessed, in order, each written into the result before the next.
RECURSIVE SecondPass(_, _, _, _)
SecondPass(secret, guess, res, i) ==
    IF i >= Len(secret) THEN res
    ELSE IF At(res, i) # res_unknown THEN SecondPass(secret, guess, res, i + 1)
    ELSE SecondPass(secret, guess,
                    [res EXCEPT ![i + 1] = SearchSecret(secret, At(guess, i), res, 0)],
                    i + 1)

\* CheckWordGuess(secret_word, guess_word, result): the return value and the
\* result string afterwards; res is the caller's string before the call.
CheckWordGuess(words, secret, guess, res) ==
    IF ~IsWordInList(words, guess)
    THEN [ret |-> FALSE, result |-> res]
    ELSE [ret |-> TRUE,
          result |-> SecondPass(secret, guess, FirstPass(secret, guess), 0)]

-----------------------------------------------------------------------------
\* CheckWordAgainstHint.

\* for (c=0; (c < ws) && ((word[c] != ch) || (c == i)); ++c); the final c.
RECURSIVE MislaidScan(_, _, _, _, _)
MislaidScan(word, ch, i, c, ws) ==
    IF c < ws /\ (At(word, c) # ch \/ c = i)
    THEN MislaidScan(word, ch, i, c + 1, ws)
    ELSE c

\* HintLoop with an Absent case that looks at the position only.
RECURSIVE HintLoopAbsentAtSpot(_, _, _, _, _)
HintLoopAbsentAtSpot(word, hword, hres, i, ws) ==
    IF i >= ws THEN TRUE
    ELSE LET code == At(hres, i)
             ch == At(hword, i)
         IN  IF code = res_matched
             THEN IF At(word, i) # ch THEN FALSE
                  ELSE HintLoopAbsentAtSpot(word, hword, hres, i + 1, ws)
             ELSE IF code = res_missing
             THEN IF At(word, i) = ch THEN FALSE
                  ELSE HintLoopAbsentAtSpot(word, hword, hres, i + 1, ws)
             ELSE IF code = res_mislaid
             THEN IF At(word, i) = ch THEN FALSE
                  ELSE IF MislaidScan(word, ch, i, 0, ws) = ws THEN FALSE
                  ELSE HintLoopAbsentAtSpot(word, hword, hres, i + 1, ws)
             ELSE HintLoopAbsentAtSpot(word, hword, hres, i + 1, ws)

\* HintLoop with the Misplaced case of the first release: the letter must not
\* be at this position, and nothing asks that it be in the word.
RECURSIVE HintLoopSpotOnly(_, _, _, _, _)
HintLoopSpotOnly(word, hword, hres, i, ws) ==
    IF i >= ws THEN TRUE
    ELSE LET code == At(hres, i)
             ch == At(hword, i)
         IN  IF code = res_matched
             THEN IF At(word, i) # ch THEN FALSE
                  ELSE HintLoopSpotOnly(word, hword, hres, i + 1, ws)
             ELSE IF code = res_missing
             THEN IF StrFind(word, ch, 0) # npos THEN FALSE
                  ELSE HintLoopSpotOnly(word, hword, hres, i + 1, ws)
             ELSE IF code = res_mislaid
             THEN IF At(word, i) = ch THEN FALSE
                  ELSE HintLoopSpotOnly(word, hword, hres, i + 1, ws)
             ELSE HintLoopSpotOnly(word, hword, hres, i + 1, ws)

\* The for loop over the positions of the hint, from position i on.
RECURSIVE HintLoop(_, _, _, _, _)
HintLoop(word, hword, hres, i, ws) ==
    IF i >= ws THEN TRUE
    ELSE LET code == At(hres, i)
             ch == At(hword, i)
         IN  IF code = res_matched
             THEN IF At(word, i) # ch THEN FALSE
                  ELSE HintLoop(word, hword, hres, i + 1, ws)
             ELSE IF code = res_missing
             THEN IF StrFind(word, ch, 0) # npos THEN FALSE
                  ELSE HintLoop(word, hword, hres, i + 1, ws)
             ELSE IF code = res_mislaid
             THEN IF At(word, i) = ch THEN FALSE
                  ELSE IF MislaidScan(word, ch, i, 0, ws) = ws THEN FALSE
                  ELSE HintLoop(word, hword, hres, i + 1, ws)
             ELSE HintLoop(word, hword, hres, i + 1, ws)

\* CheckWordAgainstHint(word, hint), hint = <<guess word, feedback>>.
CheckWordAgainstHint(words, word, hint) ==
    HintLoop(word, hint[1], hint[2], 0, GetWordSize(words))

-----------------------------------------------------------------------------
\* ListWords.

\* The string of all valid result codes.
res_chars == {res_matched, res_missing, res_mislaid}

\* res.find_first_not_of(res_chars), from position i on.
RECURSIVE FindFirstNotOf(_, _, _)
FindFirstNotOf(res, chars, i) ==
    IF i >= Len(res) THEN npos
    ELSE IF At(res, i) \notin chars THEN i
    ELSE FindFirstNotOf(res, chars, i + 1)

\* HintValid without the test of the feedback characters.
HintValidLengthsOnly(words, hint) ==
    ~(Len(hint[1]) # GetWordSize(words) \/ Len(hint[2]) # GetWordSize(words))

\* The validity of one hint: both lengths are the word size and the feedback
\* holds result codes only.
HintValid(words, hint) ==
    LET lengths_ok == ~(Len(hint[1]) # GetWordSize(words) \/ Len(hint[2]) # GetWordSize(words))
        chars_ok == ~(FindFirstNotOf(hint[2], res_chars, 0) # npos)
    IN  lengths_ok /\ chars_ok

\* The validation loop from hint k on (k from 1): FALSE at the first invalid
\* hint, where ListWords returns 1.
RECURSIVE ValidateHints(_, _, _)
ValidateHints(words, hints, k) ==
    IF k > Len(hints) THEN TRUE
    ELSE IF ~HintValid(words, hints[k]) THEN FALSE
    ELSE ValidateHints(words, hints, k + 1)

\* DropWord without the break, drop being assigned at every hint: the last
\* hint decides.
RECURSIVE DropWordLastHintDecides(_, _, _, _)
DropWordLastHintDecides(words, w, hints, k) ==
    IF k > Len(hints) THEN FALSE
    ELSE IF k = Len(hints) THEN ~CheckWordAgainstHint(words, w, hints[k])
    ELSE DropWordLastHintDecides(words, w, hints, k + 1)

\* DropWord leaving the loop after the first hint, whatever it says.
DropWordFirstHintOnly(words, w, hints, k) ==
    IF k > Len(hints) THEN FALSE
    ELSE ~CheckWordAgainstHint(words, w, hints[k])

\* The inner loop over the hints from hint k on: the final value of drop.
RECURSIVE DropWord(_, _, _, _)
DropWord(words, w, hints, k) ==
    IF k > Len(hints) THEN FALSE
    ELSE IF ~CheckWordAgainstHint(words, w, hints[k]) THEN TRUE
    ELSE DropWord(words, w, hints, k + 1)

\* FilterWords stopping one word early.
RECURSIVE FilterWordsStopsEarly(_, _, _, _)
FilterWordsStopsEarly(words, hints, n, st) ==
    IF n >= Len(words) THEN st
    ELSE IF DropWord(words, words[n], hints, 1)
    THEN FilterWordsStopsEarly(words, hints, n + 1, st)
    ELSE FilterWordsStopsEarly(words, hints, n + 1,
             [out |-> Append(st.out, words[n]), words_displayed |-> TRUE])

\* The loop over the word list from word n on (n from 1); st holds the words
\* printed so far and words_displayed.
RECURSIVE FilterWords(_, _, _, _)
FilterWords(words, hints, n, st) ==
    IF n > Len(words) THEN st
    ELSE IF DropWord(words, words[n], hints, 1)
    THEN FilterWords(words, hints, n + 1, st)
    ELSE FilterWords(words, hints, n + 1,
                     [out |-> Append(st.out, words[n]), words_displayed |-> TRUE])

\* ListWords(hints): the return value, the words printed and whether
\* "<No words matched>" was printed.
ListWords(words, hints) ==
    IF ~ValidateHints(words, hints, 1)
    THEN [status |-> 1, out |-> <<>>, none |-> FALSE]
    ELSE LET st == FilterWords(words, hints, 1,
                               [out |-> <<>>, words_displayed |-> FALSE])
         IN  [status |-> 0, out |-> st.out, none |-> ~st.words_displayed]

-----------------------------------------------------------------------------
\* GetRandomWord and TerminalPlay.

\* The character value 0, which std::string holds after its last character.
nul == "NUL"

\* What a read of memory that holds no word may give as a word.
GarbageWords == {<<>>, <<"a">>}

\* GetRandomWord(): the words it may return. With m_words empty the
\* distribution is built over 0..size_t(-1) and the index is out of range,
\* which is undefined.
GetRandomWord(words) == IF words = <<>> THEN GarbageWords ELSE Range(words)

\* constexpr int max_guesses.
max_guesses == 6

\* What result[i] may give: the character when i is a position of result,
\* the value 0 at i = result.length(), anything the buffer held beyond that
\* (undefined).
ResultChars(res, i) ==
    IF i < Len(res) THEN {At(res, i)}
    ELSE IF i = Len(res) THEN {nul}
    ELSE {nul, res_matched, res_missing, res_mislaid, res_unknown}

\* char_map[ch] = c.
PutChar(cmap, ch, c) ==
    [x \in DOMAIN cmap \cup {ch} |-> IF x = ch THEN c ELSE cmap[x]]

\* "Update the character map": the maps the loop from position i on may
\* leave.
RECURSIVE UpdateCharMap(_, _, _, _)
UpdateCharMap(cmap, guess, res, i) ==
    IF i >= Len(guess) THEN {cmap}
    ELSE UNION {UpdateCharMap(PutChar(cmap, At(guess, i), c), guess, res, i + 1) :
                    c \in ResultChars(res, i)}

\* PlayTurn ending the game one guess early.
PlayTurnLosesEarly(words, secret, line, st) ==
    LET trimmed == string_trim(line)
        guess == string_to_lower(trimmed)
        r == CheckWordGuess(words, secret, guess, st.result)
    IN  IF trimmed = <<>>
        THEN {[st EXCEPT !.guess = trimmed, !.out = "continue"]}
        ELSE IF ~r.ret
        THEN {[st EXCEPT !.guess = guess, !.ret = FALSE, !.out = "Not a word"]}
        ELSE {[guess |-> guess, ret |-> TRUE, result |-> r.result,
               char_map |-> cm,
               guess_number |->
                   IF guess = secret THEN st.guess_number
                   ELSE st.guess_number + 1,
               out |-> IF guess = secret THEN "won"
                       ELSE IF st.guess_number + 1 >= max_guesses THEN "lost"
                       ELSE "feedback"] :
                  cm \in UpdateCharMap(st.char_map, guess, r.result, 0)}

\* PlayTurn taking a turn for a guess that is not a word.
PlayTurnCountsInvalid(words, secret, line, st) ==
    LET trimmed == string_trim(line)
        guess == string_to_lower(trimmed)
        r == CheckWordGuess(words, secret, guess, st.result)
    IN  IF trimmed = <<>>
        THEN {[st EXCEPT !.guess = trimmed, !.out = "continue"]}
        ELSE IF ~r.ret
        THEN {[st EXCEPT !.guess = guess, !.ret = FALSE, !.out = "Not a word",
                         !.guess_number = st.guess_number + 1]}
        ELSE {[guess |-> guess, ret |-> TRUE, result |-> r.result,
               char_map |-> cm,
               guess_number |->
                   IF guess = secret THEN st.guess_number
                   ELSE st.guess_number + 1,
               out |-> IF guess = secret THEN "won"
                       ELSE IF st.guess_number + 1 > max_guesses THEN "lost"
                       ELSE "feedback"] :
                  cm \in UpdateCharMap(st.char_map, guess, r.result, 0)}

\* One pass of the main game loop for the input line read. st holds guess,
\* the last return value ret of CheckWordGuess, result, char_map and
\* guess_number; out tells how the pass ended: "continue" for an empty line,
\* "Not a word", "feedback" when the game goes on, "won" or "lost". The
\* states it may leave.
PlayTurn(words, secret, line, st) ==
    LET trimmed == string_trim(line)
        guess == string_to_lower(trimmed)
        r == CheckWordGuess(words, secret, guess, st.result)
    IN  IF trimmed = <<>>
        THEN {[st EXCEPT !.guess = trimmed, !.out = "continue"]}
        ELSE IF ~r.ret
        THEN {[st EXCEPT !.guess = guess, !.ret = FALSE, !.out = "Not a word"]}
        ELSE {[guess |-> guess, ret |-> TRUE, result |-> r.result,
               char_map |-> cm,
               guess_number |->
                   IF guess = secret THEN st.guess_number
                   ELSE st.guess_number + 1,
               out |-> IF guess = secret THEN "won"
                       ELSE IF st.guess_number + 1 > max_guesses THEN "lost"
                       ELSE "feedback"] :
                  cm \in UpdateCharMap(st.char_map, guess, r.result, 0)}

-----------------------------------------------------------------------------
\* PlayerStats. The object is the record of its counters, m_guess being the
\* field guess. Its surroundings are the record env: home tells whether
\* GetUserHomeDirectory() gives a directory, dir is "exists" when the stats
\* directory is there, "absent" when it is not and can be created, "blocked"
\* when it is not and cannot; openable tells whether the stats file opens
\* for writing in an existing directory; file is <<>> without a stats file
\* and holds the saved record otherwise; save tells the default of the save
\* parameter of Win and Lose.

\* A PlayerStats as constructed, with a histogram of n slots.
ZeroStats(n) ==
    [play_count |-> 0, win_count |-> 0, cur_streak |-> 0, max_streak |-> 0,
     last_win |-> 0, guess |-> [i \in 1..n |-> 0]]

\* std::chrono::system_clock::to_time_t(now).
now == 1

\* EnsureStatsDir(): its return value and the surroundings afterwards. A
\* directory that was created gives the value of
\* create_directory(...) && !ec, which is 1.
EnsureStatsDir(env) ==
    IF ~env.home THEN [ret |-> -1, env |-> env]
    ELSE IF env.dir = "exists" THEN [ret |-> 0, env |-> env]
    ELSE IF env.dir = "absent"
    THEN [ret |-> 1, env |-> [env EXCEPT !.dir = "exists"]]
    ELSE [ret |-> 0, env |-> env]

\* Save(): its return value and the surroundings afterwards.
Save(stats, env) ==
    LET e == EnsureStatsDir(env)
    IN  IF e.ret # 0 THEN e
        ELSE IF ~(e.env.dir = "exists" /\ e.env.openable)
        THEN [ret |-> -1, env |-> e.env]
        ELSE [ret |-> 0, env |-> [e.env EXCEPT !.file = <<stats>>]]

\* Load(): its return value and the object afterwards.
Load(stats, env) ==
    IF ~(env.home /\ env.dir = "exists" /\ env.file # <<>>)
    THEN [ret |-> -1, stats |-> stats]
    ELSE [ret |-> 0, stats |-> env.file[1]]

\* Attempt().
Attempt(stats) == [stats EXCEPT !.play_count = @ + 1]

\* Win counting the win in the slot after the one it belongs to.
WinNextSlot(stats, guesses, save, env) ==
    LET cur == stats.cur_streak + 1
        won == [stats EXCEPT
                   !.last_win = now,
                   !.win_count = @ + 1,
                   !.cur_streak = cur,
                   !.max_streak = IF @ < cur THEN cur ELSE @]
        upd == IF guesses < Len(stats.guess)
               THEN [won EXCEPT !.guess[guesses + 1] = @ + 1]
               ELSE won
        sv == IF save THEN Save(upd, env) ELSE [ret |-> 0, env |-> env]
    IN  [ret |-> sv.ret, stats |-> upd, env |-> sv.env]

\* Win(guesses, save): its return value, the object and the surroundings
\* afterwards.
Win(stats, guesses, save, env) ==
    LET cur == stats.cur_streak + 1
        won == [stats EXCEPT
                   !.last_win = now,
                   !.win_count = @ + 1,
                   !.cur_streak = cur,
                   !.max_streak = IF @ < cur THEN cur ELSE @]
        upd == IF guesses # 0 /\ (guesses - 1) < Len(stats.guess)
               THEN [won EXCEPT !.guess[guesses] = @ + 1]
               ELSE won
        sv == IF save THEN Save(upd, env) ELSE [ret |-> 0, env |-> env]
    IN  [ret |-> sv.ret, stats |-> upd, env |-> sv.env]

\* Lose keeping the streak.
LoseKeepsStreak(stats, save, env) ==
    LET sv == IF save THEN Save(stats, env) ELSE [ret |-> 0, env |-> env]
    IN  [ret |-> sv.ret, stats |-> stats, env |-> sv.env]

\* Lose(save): its return value, the object and the surroundings afterwards.
Lose(stats, save, env) ==
    LET upd == [stats EXCEPT !.cur_streak = 0]
        sv == IF save THEN Save(upd, env) ELSE [ret |-> 0, env |-> env]
    IN  [ret |-> sv.ret, stats |-> upd, env |-> sv.env]

-----------------------------------------------------------------------------
\* The operations as actions.

\* The string of n copies of the character ch.
Fill(ch, n) == [i \in 1..n |-> ch]

\* The word files of the generated word lists: at most MaxWords lines, each a
\* word over cs, all of one length from 1 to MaxLen.
Files(cs) ==
    UNION {[1..k -> Strs(cs, L)] : k \in 0..MaxWords, L \in 1..MaxLen}

\* The word lists the constructor builds from them.
Stores == {InitWordListFile(f) : f \in Files(Letters)}

\* Surroundings without a home directory: no statistics are read or written.
NoHome ==
    [home |-> FALSE, dir |-> "absent", openable |-> FALSE, file |-> <<>>,
     save |-> TRUE]

\* No membership query, no evaluation step by step and no game has run, and
\* the statistics are those of a new object.
InitNoPlay ==
    /\ list_word = <<>> /\ in_list = FALSE
    /\ pass_i = 0 /\ find_offset = 0 /\ find_count = 0
    /\ opt_list = FALSE /\ opt_secret = <<>>
    /\ guess_number = 1 /\ char_map = <<>>
    /\ exit_status = 0 /\ random_empty = FALSE
    /\ p_stats = ZeroStats(max_guesses)
    /\ stats_env = NoHome
    /\ save_ret = 0

\* No operation of the word list has been called.
InitNoCalls ==
    /\ secret_word = <<>> /\ guess_word = <<>>
    /\ guess_ok = FALSE /\ result = <<>>
    /\ cand_word = <<>> /\ cand_hint = << <<>>, <<>> >> /\ hint_ok = FALSE
    /\ hint_vect = <<>> /\ list_status = 0 /\ list_out = <<>>
    /\ list_none = FALSE
    /\ InitNoPlay

\* The list is built and nothing has been called yet. The word file is the
\* one that holds the words of the list, one a line in the order of the list.
InitCalls ==
    /\ pc = "start"
    /\ word_file = m_words
    /\ is_open = TRUE
    /\ InitNoCalls

\* A call IsWordInList(w).
IsWordInListCall(w) ==
    /\ list_word' = w
    /\ in_list' = IsWordInList(m_words, w)
    /\ pc' = "IsWordInList"
    /\ UNCHANGED <<m_words, guess_vars, cand_vars, list_vars, file_vars, stats_vars,
                   loop_vars, play_vars>>

\* A call CheckWordGuess(s, g, result).
CheckWordGuessCall(s, g) ==
    LET r == CheckWordGuess(m_words, s, g, result)
    IN  /\ secret_word' = s
        /\ guess_word' = g
        /\ guess_ok' = r.ret
        /\ result' = r.result
        /\ pc' = "CheckWordGuess"
        /\ UNCHANGED <<m_words, cand_vars, list_vars, file_vars, stats_vars, member_vars,
                       loop_vars, play_vars>>

\* A call CheckWordAgainstHint(w, h).
CheckWordAgainstHintCall(w, h) ==
    /\ cand_word' = w
    /\ cand_hint' = h
    /\ hint_ok' = CheckWordAgainstHint(m_words, w, h)
    /\ pc' = "CheckWordAgainstHint"
    /\ UNCHANGED <<m_words, guess_vars, list_vars, file_vars, stats_vars, member_vars,
                   loop_vars, play_vars>>

\* ListWordsCall filtering the word list in place: the words that were
\* dropped are erased from m_words.
ListWordsCallErasesDropped(hs) ==
    LET r == ListWords(m_words, hs)
    IN  /\ hint_vect' = hs
        /\ list_status' = r.status
        /\ list_out' = r.out
        /\ list_none' = r.none
        /\ pc' = "ListWords"
        /\ m_words' = IF r.status = 0 THEN r.out ELSE m_words
        /\ UNCHANGED <<guess_vars, cand_vars, file_vars, stats_vars, member_vars,
                       loop_vars, play_vars>>

\* A call ListWords(hs).
ListWordsCall(hs) ==
    LET r == ListWords(m_words, hs)
    IN  /\ hint_vect' = hs
        /\ list_status' = r.status
        /\ list_out' = r.out
        /\ list_none' = r.none
        /\ pc' = "ListWords"
        /\ UNCHANGED <<m_words, guess_vars, cand_vars, file_vars, stats_vars, member_vars,
                       loop_vars, play_vars>>

-----------------------------------------------------------------------------
\* Spec: the guess evaluator. A guess over Letters is evaluated against a
\* secret of the word size over HintLetters; the feedback is then given to
\* the hint filter as the hint <<guess, feedback>>, for the secret and for the
\* words of the list.

Init == m_words \in Stores /\ InitCalls

Evaluate ==
    /\ pc = "start"
    /\ \E s \in Strs(HintLetters, GetWordSize(m_words)) :
       \E g \in Strs(Letters, GetWordSize(m_words)) :
           CheckWordGuessCall(s, g)

FilterOwnHint ==
    /\ pc = "CheckWordGuess"
    /\ guess_ok
    /\ \E w \in {secret_word} \cup Range(m_words) :
           CheckWordAgainstHintCall(w, <<guess_word, result>>)

Next == Evaluate \/ FilterOwnHint

Spec == Init /\ [][Next]_vars

-----------------------------------------------------------------------------
\* SpecHint: the hint filter on every hint of the right shape, for the word
\* of a one-word list.

InitHint ==
    /\ \E L \in 1..MaxLen : \E w \in Strs(HintLetters, L) :
           m_words = InitWordListFile(<<w>>)
    /\ InitCalls

FilterHint ==
    /\ pc = "start"
    /\ \E k \in 1..Len(m_words) :
       \E g \in Strs(HintLetters, GetWordSize(m_words)) :
       \E fb \in Strs(res_chars, GetWordSize(m_words)) :
           CheckWordAgainstHintCall(m_words[k], <<g, fb>>)

NextHint == FilterHint

SpecHint == InitHint /\ [][NextHint]_vars

-----------------------------------------------------------------------------
\* SpecList: the solution finder. The word list is listed without hints,
\* then again with one more hint each time, as with one more --hint option.

\* The word files listed: none, one-letter words, two-letter words out of
\* order, a word twice, and every two-letter word over HintLetters.
ListFiles ==
    {<<>>,
     << <<"b">>, <<"c">>, <<"a">> >>,
     << <<"c", "a">>, <<"a", "b">> >>,
     << <<"b", "a">>, <<"a", "b">>, <<"b", "a">> >>,
     << <<"c", "b">>, <<"a", "a">>, <<"b", "c">>, <<"a", "c">>, <<"c", "c">>,
        <<"b", "a">>, <<"a", "b">>, <<"c", "a">>, <<"b", "b">> >>}

\* The word lists the constructor builds from them.
ListStores == {InitWordListFile(f) : f \in ListFiles}

\* Hints of the wrong shape for word size n: a feedback holding '?', a
\* feedback one character too long, a guess word one character too short
\* (too long when n = 0).
BadHints(n) ==
    {<<Fill("a", n), [i \in 1..n |-> IF i = k THEN "?" ELSE res_matched]>> :
         k \in 1..n}
    \cup {<<Fill("a", n), Fill(res_missing, n + 1)>>}
    \cup {<<Fill("a", IF n = 0 THEN 1 ELSE n - 1), Fill(res_missing, n)>>}

\* The --hint options tried for word size n: every well-formed hint whose
\* guess word is over Letters, and the hints of the wrong shape.
HintInputs(n) == (Strs(Letters, n) \X Strs(res_chars, n)) \cup BadHints(n)

InitList == m_words \in ListStores /\ InitCalls

ListAll ==
    /\ pc = "start"
    /\ ListWordsCall(<<>>)

ListMore ==
    /\ pc = "ListWords"
    /\ Len(hint_vect) < MaxHints
    /\ \E h \in HintInputs(GetWordSize(m_words)) :
           ListWordsCall(Append(hint_vect, h))

NextList == ListAll \/ ListMore

SpecList == InitList /\ [][NextList]_vars

-----------------------------------------------------------------------------
\* SpecScenario: a game and its solution finder on two given word files.
\* The secret is a word of the list; each guess is a word of the list; the
\* feedback of a guess is added to the hints and the list is filtered.

arise == <<"a", "r", "i", "s", "e">>
route == <<"r", "o", "u", "t", "e">>
rules == <<"r", "u", "l", "e", "s">>
rebus == <<"r", "e", "b", "u", "s">>
aabb == <<"a", "a", "b", "b">>
abca == <<"a", "b", "c", "a">>

\* The word file of the README example and one of words with repeated letters.
ReadmeFile == <<arise, route, rules, rebus>>
RepeatFile == <<aabb, abca>>

InitScenario ==
    /\ \E f \in {ReadmeFile, RepeatFile} : m_words = InitWordListFile(f)
    /\ pc = "start"
    /\ secret_word \in Range(m_words)
    /\ guess_word = <<>> /\ guess_ok = FALSE /\ result = <<>>
    /\ cand_word = <<>> /\ cand_hint = << <<>>, <<>> >> /\ hint_ok = FALSE
    /\ hint_vect = <<>> /\ list_status = 0 /\ list_out = <<>>
    /\ list_none = FALSE
    /\ InitNoPlay
    /\ word_file = m_words
    /\ is_open = TRUE

Guess == \E g \in Range(m_words) : CheckWordGuessCall(secret_word, g)

ListWithFeedback ==
    /\ pc = "CheckWordGuess"
    /\ guess_ok
    /\ Len(hint_vect) < MaxScenarioHints
    /\ ListWordsCall(Append(hint_vect, <<guess_word, result>>))

NextScenario == Guess \/ ListWithFeedback

SpecScenario == InitScenario /\ [][NextScenario]_vars

-----------------------------------------------------------------------------
\* SpecLoad: the constructor on a word file, then a membership query.

\* Most lines of a word file loaded.
MaxFileLines == 3

\* The lines the word files loaded are made of: an empty line, a line of one
\* space, words of one and of two letters, in either case, with and without
\* whitespace around them.
space == <<" ">>
RawLines ==
    {<<>>, space, <<"a">>, <<"b">>, <<" ", "B">>, <<"b", "a">>, <<"a", "b">>,
     <<"a", "B", " ">>}

\* The word files loaded.
LoadFiles == UNION {[1..k -> RawLines] : k \in 0..MaxFileLines}

\* The words asked for: every string over Letters of up to MaxLen letters.
QueryWords == UNION {Strs(Letters, n) : n \in 0..MaxLen}

\* Before the constructor has run the list is empty.
InitLoad ==
    /\ word_file \in LoadFiles
    /\ is_open \in BOOLEAN
    /\ m_words = <<>>
    /\ pc = "new"
    /\ InitNoCalls

\* mrdle::mrdle(word_file) for a word file that is named.
Construct ==
    /\ pc = "new"
    /\ m_words' = OpenWordListFile(is_open, word_file)
    /\ pc' = "start"
    /\ UNCHANGED <<guess_vars, cand_vars, list_vars, file_vars, stats_vars, member_vars,
                   loop_vars, play_vars>>

Member ==
    /\ pc = "start"
    /\ \E w \in QueryWords : IsWordInListCall(w)

NextLoad == Construct \/ Member

SpecLoad == InitLoad /\ [][NextLoad]_vars

-----------------------------------------------------------------------------
\* SpecLoop: CheckWordGuess step by step. pc is "for" at the head of the
\* second pass, "while" at the head of its search loop and "done" when the
\* function has returned.

\* SearchStep looping back with the offset at the occurrence found.
SearchStepSameOffset(secret, ch, res, offset) ==
    LET p == StrFind(secret, ch, offset)
    IN  IF p = npos THEN [brk |-> TRUE, code |-> res_missing, offset |-> offset]
        ELSE IF At(res, p) # res_matched
        THEN [brk |-> TRUE, code |-> res_mislaid, offset |-> offset]
        ELSE [brk |-> FALSE, code |-> res_unknown, offset |-> p]

\* One iteration of the while (1) loop for the letter ch: whether it breaks,
\* the code it writes when it does, and the offset afterwards.
SearchStep(secret, ch, res, offset) ==
    LET p == StrFind(secret, ch, offset)
    IN  IF p = npos THEN [brk |-> TRUE, code |-> res_missing, offset |-> offset]
        ELSE IF At(res, p) # res_matched
        THEN [brk |-> TRUE, code |-> res_mislaid, offset |-> offset]
        ELSE [brk |-> FALSE, code |-> res_unknown, offset |-> p + 1]

\* Most searches followed for one guess position.
MaxSearches == MaxLen + 2

\* The list holds one word over HintLetters.
InitLoop ==
    /\ \E L \in 1..MaxLen : \E w \in Strs(HintLetters, L) :
           m_words = InitWordListFile(<<w>>)
    /\ InitCalls

\* CheckWordGuess is entered: the membership check, the resize, the first
\* pass. The guess is the word of the list or a word that is not in it.
EnterGuess ==
    /\ pc = "start"
    /\ \E s \in Strs(HintLetters, GetWordSize(m_words)) :
       \E g \in Range(m_words) \cup {Fill("a", GetWordSize(m_words) + 1)} :
           /\ secret_word' = s
           /\ guess_word' = g
           /\ IF ~IsWordInList(m_words, g)
              THEN /\ guess_ok' = FALSE
                   /\ pc' = "done"
                   /\ UNCHANGED result
              ELSE /\ result' = FirstPass(s, g)
                   /\ pc' = "for"
                   /\ UNCHANGED guess_ok
    /\ pass_i' = 0
    /\ UNCHANGED <<find_offset, find_count>>
    /\ UNCHANGED <<m_words, cand_vars, list_vars, file_vars, stats_vars, member_vars,
                   play_vars>>

\* The head of the second pass: the end of the loop, a position that is
\* processed already, or the start of a search.
ForStep ==
    /\ pc = "for"
    /\ IF pass_i >= Len(secret_word)
       THEN /\ guess_ok' = TRUE
            /\ pc' = "done"
            /\ UNCHANGED <<pass_i, find_offset, find_count>>
       ELSE IF At(result, pass_i) # res_unknown
       THEN /\ pass_i' = pass_i + 1
            /\ UNCHANGED <<pc, guess_ok, find_offset, find_count>>
       ELSE /\ find_offset' = 0
            /\ find_count' = 0
            /\ pc' = "while"
            /\ UNCHANGED <<pass_i, guess_ok>>
    /\ UNCHANGED <<secret_word, guess_word, result>>
    /\ UNCHANGED <<m_words, cand_vars, list_vars, file_vars, stats_vars, member_vars,
                   play_vars>>

\* One iteration of the search loop.
WhileStep ==
    /\ pc = "while"
    /\ find_count < MaxSearches
    /\ LET r == SearchStep(secret_word, At(guess_word, pass_i), result,
                           find_offset)
       IN  /\ find_count' = find_count + 1
           /\ find_offset' = r.offset
           /\ IF r.brk
              THEN /\ result' = [result EXCEPT ![pass_i + 1] = r.code]
                   /\ pass_i' = pass_i + 1
                   /\ pc' = "for"
              ELSE UNCHANGED <<result, pass_i, pc>>
    /\ UNCHANGED <<secret_word, guess_word, guess_ok>>
    /\ UNCHANGED <<m_words, cand_vars, list_vars, file_vars, stats_vars, member_vars,
                   play_vars>>

NextLoop == EnterGuess \/ ForStep \/ WhileStep

\* A function that has been entered keeps running: weak fairness of its
\* steps.
SpecLoop == InitLoop /\ [][NextLoop]_vars /\ WF_vars(NextLoop)

-----------------------------------------------------------------------------
\* SpecMain: a run of the program, from main to its return. pc is "main"
\* before main has run, "prompt" while TerminalPlay waits for a line,
\* "Not a word" while it waits for one after that message, "won", "lost" or
\* "eof" when TerminalPlay has returned and main with it, and "exit" when
\* main returned without a game. The options are those left by
\* ProcessCommandLine, which lower-cases the secret word.

\* The word files of the runs: an empty file, a file whose third line has
\* another length, a file with an empty first line, two files of words of
\* two letters.
MainFiles ==
    {<<>>,
     << <<"a", "b">>, <<"b", "a">>, <<"a">> >>,
     << <<>>, <<"a">> >>,
     << <<"b", "a">>, <<"a", "b">> >>,
     << <<"b", "b">>, <<" ", "A", "b">>, <<"a", "a">>, <<"a", "b">> >>}

\* The --secret-word options: none, words of two letters, a word of one and
\* a word of three.
MainSecrets ==
    {<<>>, <<"a", "b">>, <<"b", "b">>, <<"a">>, <<"a", "b", "c">>}

\* The --hint options: none, a hint of two letters.
MainHints == {<<>>, << <<<<"a", "b">>, <<"!", "x">>>> >>}

\* The lines typed at the prompt: the words of the list, an empty line, a
\* line of one space, a word in upper case among spaces, words of one, two
\* and three letters.
PlayLines(words) ==
    Range(words) \cup
    {<<>>, space, <<" ", "B", "A", " ">>, <<"b">>, <<"a", "a">>,
     <<"a", "b", "c">>}

\* A stats file of three games, two of them won, the last one lost.
SavedStats ==
    [play_count |-> 3, win_count |-> 2, cur_streak |-> 0, max_streak |-> 2,
     last_win |-> now,
     guess |-> [i \in 1..max_guesses |-> IF i \in {2, 4} THEN 1 ELSE 0]]

\* The surroundings of the runs: no home directory; no stats directory; a
\* stats directory without a file; a stats file, which opens or does not,
\* with either default of the save parameter.
MainEnvs ==
    {NoHome,
     [home |-> TRUE, dir |-> "absent", openable |-> TRUE, file |-> <<>>,
      save |-> TRUE],
     [home |-> TRUE, dir |-> "exists", openable |-> TRUE, file |-> <<>>,
      save |-> TRUE]}
    \cup {[home |-> TRUE, dir |-> "exists", openable |-> o,
           file |-> <<SavedStats>>, save |-> sv] : o, sv \in BOOLEAN}

InitMain ==
    /\ word_file \in MainFiles
    /\ is_open \in BOOLEAN
    /\ m_words = <<>>
    /\ pc = "main"
    /\ secret_word = <<>> /\ guess_word = <<>>
    /\ guess_ok = FALSE /\ result = <<>>
    /\ cand_word = <<>> /\ cand_hint = << <<>>, <<>> >> /\ hint_ok = FALSE
    /\ hint_vect \in MainHints
    /\ opt_list \in IF hint_vect = <<>> THEN BOOLEAN ELSE {TRUE}
    /\ opt_secret \in MainSecrets
    /\ list_status = 0 /\ list_out = <<>> /\ list_none = FALSE
    /\ list_word = <<>> /\ in_list = FALSE
    /\ pass_i = 0 /\ find_offset = 0 /\ find_count = 0
    /\ guess_number = 1 /\ char_map = <<>>
    /\ exit_status = 0 /\ random_empty = FALSE
    /\ p_stats = ZeroStats(max_guesses)
    /\ stats_env \in MainEnvs
    /\ save_ret = 0

\* main never looking at the count of words.
NoWordsNotChecked(words) == FALSE

\* if (0 == ws.GetWordListCount()): something failed.
NoWords(words) == 0 = GetWordListCount(words)

\* BadSecretLength refusing a secret word that is not in the list as well.
BadSecretLengthOrUnlisted(words, secret) ==
    LET swl == Len(secret)
    IN  swl # 0 /\ (swl # GetWordSize(words) \/ ~IsWordInList(words, secret))

\* swl && swl != ws.GetWordSize().
BadSecretLength(words, secret) ==
    LET swl == Len(secret)
    IN  swl # 0 /\ swl # GetWordSize(words)

\* main builds the list, finds it empty and returns 1.
MainNoWords ==
    /\ pc = "main"
    /\ LET words == OpenWordListFile(is_open, word_file)
       IN  /\ NoWords(words)
           /\ m_words' = words
    /\ exit_status' = 1
    /\ pc' = "exit"
    /\ UNCHANGED <<guess_vars, cand_vars, list_vars, file_vars, stats_vars, member_vars,
                   loop_vars, opt_list, opt_secret, guess_number, char_map,
                   random_empty>>

\* main builds the list and returns what ListWords returns.
MainList ==
    /\ pc = "main"
    /\ LET words == OpenWordListFile(is_open, word_file)
           r == ListWords(words, hint_vect)
       IN  /\ ~NoWords(words)
           /\ opt_list
           /\ m_words' = words
           /\ list_status' = r.status
           /\ list_out' = r.out
           /\ list_none' = r.none
           /\ exit_status' = r.status
    /\ pc' = "exit"
    /\ UNCHANGED <<guess_vars, cand_vars, hint_vect, file_vars, stats_vars, member_vars,
                   loop_vars, opt_list, opt_secret, guess_number, char_map,
                   random_empty>>

\* main builds the list, finds the secret word of another length than the
\* word size and returns 1.
MainBadSecret ==
    /\ pc = "main"
    /\ LET words == OpenWordListFile(is_open, word_file)
       IN  /\ ~NoWords(words)
           /\ ~opt_list
           /\ BadSecretLength(words, opt_secret)
           /\ m_words' = words
    /\ exit_status' = 1
    /\ pc' = "exit"
    /\ UNCHANGED <<guess_vars, cand_vars, list_vars, file_vars, stats_vars, member_vars,
                   loop_vars, opt_list, opt_secret, guess_number, char_map,
                   random_empty>>

\* StatsAtStart adding the attempt twice.
StatsAtStartAttemptsTwice(env) ==
    LET loaded == Load(ZeroStats(max_guesses), env).stats
        stats == Attempt(Attempt(loaded))
        sv == Save(stats, env)
    IN  [ret |-> sv.ret, stats |-> stats, env |-> sv.env]

\* PlayerStats p_stats("", GetWordSize(), max_guesses); Load(); Attempt();
\* Save(): the object, the surroundings and the return value of Save.
StatsAtStart(env) ==
    LET loaded == Load(ZeroStats(max_guesses), env).stats
        stats == Attempt(loaded)
        sv == Save(stats, env)
    IN  [ret |-> sv.ret, stats |-> stats, env |-> sv.env]

\* p_stats.Win(guess_number) when the game is won, p_stats.Lose() when it is
\* lost, with the default of the save parameter.
StatsAtEnd(out, stats, guesses, env) ==
    IF out = "won" THEN Win(stats, guesses, env.save, env)
    ELSE Lose(stats, env.save, env)

\* TerminalPlay(secret) on the list words, up to its first prompt: the
\* statistics are loaded and the attempt is added and saved; a random word
\* is picked when the secret word is empty.
TerminalPlayBegin(words, secret) ==
    /\ IF secret = <<>>
       THEN /\ secret_word' \in GetRandomWord(words)
            /\ random_empty' = (random_empty \/ words = <<>>)
       ELSE /\ secret_word' = secret
            /\ UNCHANGED random_empty
    /\ guess_number' = 1
    /\ char_map' = <<>>
    /\ guess_word' = <<>>
    /\ result' = <<>>
    /\ pc' = "prompt"
    /\ LET st == StatsAtStart(stats_env)
       IN  /\ p_stats' = st.stats
           /\ stats_env' = st.env
           /\ save_ret' = st.ret
    /\ UNCHANGED <<guess_ok, cand_vars, list_vars, file_vars, member_vars,
                   loop_vars, opt_list, opt_secret, exit_status>>

\* main builds the list and calls TerminalPlay.
MainPlay ==
    /\ pc = "main"
    /\ LET words == OpenWordListFile(is_open, word_file)
       IN  /\ ~NoWords(words)
           /\ ~opt_list
           /\ ~BadSecretLength(words, opt_secret)
           /\ m_words' = words
           /\ TerminalPlayBegin(words, opt_secret)

\* TerminalPlay reads a line and runs one pass of its loop; main returns 0
\* when the game is won or lost.
PlayReadFrom(lines) ==
    /\ pc \in {"prompt", "Not a word"}
    /\ \E line \in lines :
       \E t \in PlayTurn(m_words, secret_word, line,
                         [guess |-> guess_word, ret |-> guess_ok,
                          result |-> result, char_map |-> char_map,
                          guess_number |-> guess_number, out |-> "continue"]) :
           /\ guess_word' = t.guess
           /\ guess_ok' = t.ret
           /\ result' = t.result
           /\ char_map' = t.char_map
           /\ guess_number' = t.guess_number
           /\ pc' = IF t.out \in {"continue", "feedback"} THEN "prompt"
                    ELSE t.out
           /\ IF t.out \in {"won", "lost"}
              THEN LET e == StatsAtEnd(t.out, p_stats, t.guess_number,
                                       stats_env)
                   IN  /\ p_stats' = e.stats
                       /\ stats_env' = e.env
                       /\ save_ret' = e.ret
              ELSE UNCHANGED stats_vars
    /\ UNCHANGED <<m_words, secret_word, cand_vars, list_vars, file_vars,
                   member_vars, loop_vars, opt_list, opt_secret, exit_status,
                   random_empty>>

PlayRead == PlayReadFrom(PlayLines(m_words))

\* The input ends: TerminalPlay breaks out of its loop and main returns 0.
PlayEof ==
    /\ pc \in {"prompt", "Not a word"}
    /\ pc' = "eof"
    /\ UNCHANGED <<m_words, guess_vars, cand_vars, list_vars, file_vars, stats_vars,
                   member_vars, loop_vars, play_vars>>

NextMain ==
    MainNoWords \/ MainList \/ MainBadSecret \/ MainPlay \/ PlayRead \/ PlayEof

SpecMain == InitMain /\ [][NextMain]_vars

-----------------------------------------------------------------------------
\* SpecSession: the operations of a built list called one after another, in
\* any order and any number of times. TerminalPlay runs to its return before
\* the next operation is called.

\* The word files of the sessions: an empty file, a file of words of one
\* letter with a word twice, a file of words of two letters.
SessionFiles ==
    {<<>>,
     << <<"b">>, <<"a">>, <<"b">> >>,
     << <<"b", "a">>, <<"a", "b">> >>}

\* The words the operations are called with, for word size n: the words of
\* the list and a word of one letter more.
SessionWords(words, n) == Range(words) \cup {Fill("a", n + 1)}

\* The hints the operations are called with, for word size n: one of the
\* right shape and one whose feedback is a character too long.
SessionHint(n) == <<Fill("a", n), Fill(res_matched, n)>>
SessionBadHint(n) == <<Fill("a", n), Fill(res_missing, n + 1)>>

InitSession ==
    /\ \E f \in SessionFiles : m_words = InitWordListFile(f)
    /\ InitCalls

\* No call is running.
Callable == pc \notin {"new", "main", "prompt", "Not a word"}

AskMember ==
    /\ Callable
    /\ \E w \in SessionWords(m_words, GetWordSize(m_words)) :
           IsWordInListCall(w)

\* A call GetRandomWord(), whose return value is kept as the secret word.
PickRandom ==
    /\ Callable
    /\ secret_word' \in GetRandomWord(m_words)
    /\ random_empty' = (random_empty \/ m_words = <<>>)
    /\ pc' = "GetRandomWord"
    /\ UNCHANGED <<m_words, guess_word, guess_ok, result, cand_vars,
                   list_vars, file_vars, stats_vars, member_vars, loop_vars, opt_list,
                   opt_secret, guess_number, char_map, exit_status>>

EvaluateGuess ==
    /\ Callable
    /\ \E g \in SessionWords(m_words, GetWordSize(m_words)) :
           CheckWordGuessCall(
               IF Len(secret_word) = GetWordSize(m_words) THEN secret_word
               ELSE Fill("a", GetWordSize(m_words)), g)

FilterCandidate ==
    /\ Callable
    /\ \E k \in 1..Len(m_words) :
           CheckWordAgainstHintCall(m_words[k], SessionHint(GetWordSize(m_words)))

ListSession ==
    /\ Callable
    /\ \E hs \in {<<>>, <<SessionHint(GetWordSize(m_words))>>,
                  <<SessionBadHint(GetWordSize(m_words))>>} :
           ListWordsCall(hs)

\* A call TerminalPlay("") on a list that is not empty.
PlaySession ==
    /\ m_words # <<>>
    /\ Callable
    /\ TerminalPlayBegin(m_words, <<>>)
    /\ UNCHANGED m_words

\* The lines typed in a session: the words of the list and a word that is
\* not in it.
PlayReadSession ==
    PlayReadFrom(Range(m_words) \cup {Fill("a", GetWordSize(m_words) + 1)})

NextSession ==
    \/ AskMember \/ PickRandom \/ EvaluateGuess \/ FilterCandidate
    \/ ListSession \/ PlaySession \/ PlayReadSession \/ PlayEof

SpecSession == InitSession /\ [][NextSession]_vars

\* ------------------------------------------------------------------------
\* SpecStats: the operations of one PlayerStats object called one after
\* another, in any order, on a list of words of two letters. pc names the
\* last operation, guess_number and opt_list hold the arguments of the last
\* Win or Lose, save_ret the last return value.

\* The counters are followed up to this value.
MaxStat == 2

\* The arguments of Win: no guess, the first and the last slot of the
\* histogram, and one past the last.
StatGuesses == {0, 1, max_guesses, max_guesses + 1}

\* The surroundings of the object: no home directory; a stats directory
\* where the file opens or does not; no stats directory, which can be
\* created or cannot.
StatsEnvs ==
    {NoHome}
    \cup {[home |-> TRUE, dir |-> d, openable |-> o, file |-> <<>>,
           save |-> TRUE] : d \in {"exists", "absent"}, o \in BOOLEAN}
    \cup {[home |-> TRUE, dir |-> "blocked", openable |-> TRUE, file |-> <<>>,
           save |-> TRUE]}

InitStats ==
    /\ pc = "new"
    /\ m_words = << <<"a", "b">> >>
    /\ word_file = m_words
    /\ is_open = TRUE
    /\ secret_word = <<>> /\ guess_word = <<>>
    /\ guess_ok = FALSE /\ result = <<>>
    /\ cand_word = <<>> /\ cand_hint = << <<>>, <<>> >> /\ hint_ok = FALSE
    /\ hint_vect = <<>> /\ list_status = 0 /\ list_out = <<>>
    /\ list_none = FALSE
    /\ list_word = <<>> /\ in_list = FALSE
    /\ pass_i = 0 /\ find_offset = 0 /\ find_count = 0
    /\ opt_list = FALSE /\ opt_secret = <<>>
    /\ guess_number = 0 /\ char_map = <<>>
    /\ exit_status = 0 /\ random_empty = FALSE
    /\ p_stats = ZeroStats(max_guesses)
    /\ stats_env \in StatsEnvs
    /\ save_ret = 0

\* What no operation of PlayerStats touches.
stats_rest ==
    <<m_words, guess_vars, cand_vars, list_vars, file_vars, member_vars,
      loop_vars, opt_secret, char_map, exit_status, random_empty>>

\* p_stats.Load().
StatsLoad ==
    /\ LET l == Load(p_stats, stats_env)
       IN  /\ p_stats' = l.stats
           /\ save_ret' = l.ret
    /\ pc' = "Load"
    /\ UNCHANGED <<stats_env, guess_number, opt_list, stats_rest>>

\* p_stats.Attempt().
StatsAttempt ==
    /\ p_stats.play_count < MaxStat
    /\ p_stats' = Attempt(p_stats)
    /\ pc' = "Attempt"
    /\ UNCHANGED <<stats_env, save_ret, guess_number, opt_list, stats_rest>>

\* p_stats.Save().
StatsSave ==
    /\ LET sv == Save(p_stats, stats_env)
       IN  /\ stats_env' = sv.env
           /\ save_ret' = sv.ret
    /\ pc' = "Save"
    /\ UNCHANGED <<p_stats, guess_number, opt_list, stats_rest>>

\* p_stats.Win(guesses, save).
StatsWin ==
    /\ p_stats.win_count < MaxStat
    /\ \E guesses \in StatGuesses, save \in BOOLEAN :
           LET w == Win(p_stats, guesses, save, stats_env)
           IN  /\ p_stats' = w.stats
               /\ stats_env' = w.env
               /\ save_ret' = w.ret
               /\ guess_number' = guesses
               /\ opt_list' = save
    /\ pc' = "Win"
    /\ UNCHANGED stats_rest

\* p_stats.Lose(save).
StatsLose ==
    /\ \E save \in BOOLEAN :
           LET l == Lose(p_stats, save, stats_env)
           IN  /\ p_stats' = l.stats
               /\ stats_env' = l.env
               /\ save_ret' = l.ret
               /\ opt_list' = save
    /\ pc' = "Lose"
    /\ UNCHANGED <<guess_number, stats_rest>>

NextStats ==
    \/ StatsLoad
    \/ StatsAttempt
    \/ StatsSave
    \/ StatsWin
    \/ StatsLose

SpecStats == InitStats /\ [][NextStats]_vars

-----------------------------------------------------------------------------
\* Claims.

\* The positions (from 1) of the string s that hold the character ch.
Positions(s, ch) == {i \in 1..Len(s) : s[i] = ch}

Min(S) == CHOOSE x \in S : \A y \in S : x <= y
Max(S) == CHOOSE x \in S : \A y \in S : x >= y

\* C1: hint self-consistency. When the feedback CheckWordGuess produced for
\* a secret and an in-list guess is given to CheckWordAgainstHint as the hint
\* <<guess, feedback>> with the secret as the candidate, it returns true.
C1_HintSelfConsistency ==
    (/\ pc = "CheckWordAgainstHint"
     /\ cand_hint = <<guess_word, result>>
     /\ cand_word = secret_word)
        => hint_ok

\* C2: duplicate-letter accounting. When a letter holds exactly two positions
\* of the guess, neither an exact match, and exactly one position of the
\* secret, not an exact match either, the earlier of the two guess positions
\* is Misplaced and the later one Absent.
C2_DuplicateLetterAccounting ==
    (pc = "CheckWordGuess" /\ guess_ok) =>
        \A ch \in HintLetters :
            LET G == Positions(guess_word, ch)
                S == Positions(secret_word, ch)
            IN  (Cardinality(G) = 2 /\ Cardinality(S) = 1 /\ G \cap S = {})
                    => /\ result[Min(G)] = res_mislaid
                       /\ result[Max(G)] = res_missing

C4_SelfMatch ==
    (/\ pc = "CheckWordGuess"
     /\ secret_word = guess_word
     /\ \E k \in 1..Len(m_words) : m_words[k] = guess_word)
        => (guess_ok /\ result = Fill(res_matched, Len(guess_word)))

C4_Witness ==
    /\ pc = "CheckWordGuess"
    /\ secret_word = guess_word
    /\ Len(m_words) >= 2
    /\ m_words[1] # m_words[2]
    /\ guess_word = m_words[2]
    /\ Len(guess_word) >= 3

\* C5: no letter overlap. When the secret and an in-list guess share no
\* letter, every position of the feedback is Absent.
C5_NoLetterOverlap ==
    (/\ pc = "CheckWordGuess"
     /\ guess_ok
     /\ Range(secret_word) \cap Range(guess_word) = {})
        => result = Fill(res_missing, Len(guess_word))

C5_Witness ==
    /\ pc = "CheckWordGuess"
    /\ guess_ok
    /\ Range(secret_word) \cap Range(guess_word) = {}
    /\ Len(guess_word) >= 3
    /\ Cardinality(Range(guess_word)) = 2

\* The hints of the README example.
ReadmeHints ==
    << <<arise, <<"x", "~", "x", "~", "~">> >>,
       <<route, <<"!", "x", "~", "x", "~">> >>,
       <<rules, <<"!", "~", "x", "~", "!">> >> >>

\* C6: the README scenario. On the list built from arise, route, rules and
\* rebus, evaluating the guess arise against the secret rebus yields "x~x~~",
\* and listing with the three hints of the README prints rebus and nothing
\* else.
C6_ReadmeScenario ==
    m_words = InitWordListFile(ReadmeFile) =>
        /\ (secret_word = rebus /\ guess_word = arise)
               => (guess_ok /\ result = <<"x", "~", "x", "~", "~">>)
        /\ (pc = "ListWords" /\ hint_vect = ReadmeHints)
               => (list_status = 0 /\ list_out = <<rebus>> /\ ~list_none)

C6_Witness ==
    /\ m_words = InitWordListFile(ReadmeFile)
    /\ secret_word = rebus
    /\ pc = "ListWords"
    /\ hint_vect = ReadmeHints

\* Whether the hint has the shape ListWords asks for: guess word and
\* feedback of the word size, the feedback over '!', '~' and 'x'.
WellFormed(hint) ==
    /\ Len(hint[1]) = GetWordSize(m_words)
    /\ Len(hint[2]) = GetWordSize(m_words)
    /\ \A i \in 1..Len(hint[2]) : hint[2][i] \in {"!", "~", "x"}

\* Whether the candidate agrees with the hint <<guess, feedback>>, position
\* by position: Matched, the candidate holds the guess letter there; Absent,
\* the candidate holds the guess letter nowhere; Misplaced, the candidate
\* holds another letter there and the guess letter at some other position.
Agrees(cand, hint) ==
    \A i \in 1..GetWordSize(m_words) :
        /\ hint[2][i] = "!" => cand[i] = hint[1][i]
        /\ hint[2][i] = "x" => \A j \in 1..Len(cand) : cand[j] # hint[1][i]
        /\ hint[2][i] = "~" =>
               /\ cand[i] # hint[1][i]
               /\ \E j \in 1..Len(cand) : j # i /\ cand[j] = hint[1][i]

\* The words of the list that agree with every hint of hs, in list order.
Survivors(hs) ==
    LET Keep(w) == \A k \in 1..Len(hs) : Agrees(w, hs[k])
    IN  SelectSeq(m_words, Keep)

\* C7: filtering monotonicity. Listing with one more well-formed hint prints
\* a subset of the words printed without it, and no more words than that.
C7_FilteringMonotone ==
    [][(/\ pc = "ListWords" /\ list_status = 0
        /\ pc' = "ListWords" /\ list_status' = 0
        /\ Len(hint_vect') = Len(hint_vect) + 1
        /\ SubSeq(hint_vect', 1, Len(hint_vect)) = hint_vect)
           => (/\ Range(list_out') \subseteq Range(list_out)
               /\ Len(list_out') <= Len(list_out))]_vars

C7_Witness ==
    /\ pc = "ListWords"
    /\ GetWordSize(m_words) >= 2
    /\ list_status = 0
    /\ Len(hint_vect) = 2
    /\ list_out # <<>>
    /\ Len(list_out) < Len(Survivors(<<hint_vect[1]>>))
    /\ Len(Survivors(<<hint_vect[1]>>)) < Len(m_words)

\* C8: CheckWordAgainstHint returns true exactly when the candidate agrees
\* with the hint at every position.
C8_HintFilterClosedForm ==
    pc = "CheckWordAgainstHint" => (hint_ok <=> Agrees(cand_word, cand_hint))

C8_Witness ==
    /\ pc = "CheckWordAgainstHint"
    /\ hint_ok
    /\ Range(cand_hint[2]) = {"!", "~", "x"}

C10_InvalidHintFailsWholeList ==
    (pc = "ListWords" /\ \E k \in 1..Len(hint_vect) : ~WellFormed(hint_vect[k]))
        => (list_status = 1 /\ list_out = <<>>)

C10_Witness ==
    /\ pc = "ListWords"
    /\ GetWordSize(m_words) >= 2
    /\ Len(hint_vect) = 2
    /\ WellFormed(hint_vect[1])
    /\ Survivors(<<hint_vect[1]>>) # <<>>
    /\ Len(hint_vect[2][2]) = GetWordSize(m_words)
    /\ "?" \in Range(hint_vect[2][2])
    /\ list_status = 1

\* A line that is empty after trimming: it holds whitespace only.
Blank(line) == \A i \in 1..Len(line) : line[i] \in my_ws

\* The length of a line that is not blank once the whitespace around it is
\* taken off.
TrimLen(line) ==
    LET P == {i \in 1..Len(line) : line[i] \notin my_ws}
    IN  Max(P) - Min(P) + 1

\* The lines of the word file that are not blank, in order.
WordLines == SelectSeq(word_file, LAMBDA line : ~Blank(line))

\* C11: when the word file holds two non-empty lines whose words differ in
\* length, the constructor leaves the list empty: GetWordListCount() = 0.
C11_MixedLengthsEmptyStore ==
    (/\ pc # "new"
     /\ \E j, k \in 1..Len(WordLines) :
            TrimLen(WordLines[j]) # TrimLen(WordLines[k]))
        => GetWordListCount(m_words) = 0

\* Two words of one length were accepted before a third line of another
\* length, and the list is empty.
C11_Witness ==
    /\ pc = "start"
    /\ Len(word_file) = 3
    /\ Len(WordLines) = 3
    /\ TrimLen(word_file[1]) = TrimLen(word_file[2])
    /\ TrimLen(word_file[3]) # TrimLen(word_file[1])
    /\ m_words = <<>>

\* C12: a line that is empty after trimming is skipped wherever it stands:
\* the list never holds the empty word, and when the other lines are words
\* of one length the list holds one word for each of them.
C12_BlankLinesSkipped ==
    pc # "new" =>
        /\ <<>> \notin Range(m_words)
        /\ (\A j, k \in 1..Len(WordLines) :
                TrimLen(WordLines[j]) = TrimLen(WordLines[k]))
               => Len(m_words) = Len(WordLines)

\* C13: after a load the list is sorted ascending and holds no word twice.
C13_SortedNoDuplicates ==
    pc # "new" =>
        \A j, k \in 1..Len(m_words) :
            j < k => /\ ~StrLess(m_words[k], m_words[j])
                     /\ m_words[j] # m_words[k]

\* C14: IsWordInList(w) returns true iff w is an element of the list, and
\* false for a w whose length differs from the word size.
C14_MembershipExact ==
    pc = "IsWordInList" =>
        /\ in_list = (list_word \in Range(m_words))
        /\ Len(list_word) # GetWordSize(m_words) => ~in_list

\* C15: after a load all words of the list have one length, GetWordSize()
\* returns it, and GetWordSize() returns 0 only when the list is empty.
C15_UniformWordSize ==
    pc # "new" =>
        /\ \A k \in 1..Len(m_words) : Len(m_words[k]) = GetWordSize(m_words)
        /\ GetWordSize(m_words) = 0 => m_words = <<>>

\* C16: when CheckWordGuess returns true for a secret and a guess of the
\* word size, the result has that length and holds '!', '~' and 'x' only: no
\* position is left unprocessed.
C16_NoUnprocessedCode ==
    (pc = "CheckWordGuess" /\ guess_ok) =>
        /\ Len(result) = Len(secret_word)
        /\ \A i \in 1..Len(result) :
               result[i] \in {res_matched, res_mislaid, res_missing}

\* A guess was evaluated to a feedback that holds all three codes.
C16_Witness ==
    /\ pc = "CheckWordGuess" /\ guess_ok
    /\ Len(secret_word) = Len(guess_word)
    /\ Range(result) = {res_matched, res_mislaid, res_missing}

\* C17: CheckWordGuess terminates. An iteration of the search loop that does
\* not break strictly increases the offset, no guess position takes more
\* searches than the secret has letters, and the function returns.
C17_SearchTerminates ==
    /\ [][(pc = "while" /\ pc' = "while") => find_offset' > find_offset]_vars
    /\ [](find_count <= Len(secret_word))
    /\ <>(pc = "done")

\* A guess position took as many searches as the secret has letters, three
\* or more, and the function returned with every position resolved as the
\* evaluation in one step resolves it.
C17_Witness ==
    /\ pc = "done" /\ guess_ok
    /\ Len(secret_word) >= 3
    /\ find_count = Len(secret_word)
    /\ result = CheckWordGuess(m_words, secret_word, guess_word, <<>>).result

\* C18: a pass of the game loop whose guess is not in the word list ends
\* with "Not a word": CheckWordGuess returns false and leaves result as it
\* was, and guess_number and the letter map are unchanged.
C18_InvalidGuessTakesNoTurn ==
    [][(/\ pc \in {"prompt", "Not a word"}
        /\ pc' # "eof"
        /\ guess_word' # <<>>
        /\ guess_word' \notin Range(m_words))
           => /\ pc' = "Not a word"
              /\ ~guess_ok'
              /\ result' = result
              /\ guess_number' = guess_number
              /\ char_map' = char_map]_vars

\* After a valid guess that used a turn, a guess that is not in the list
\* was answered by "Not a word".
C18_Witness ==
    /\ pc = "Not a word"
    /\ guess_word \notin Range(m_words)
    /\ guess_number >= 2
    /\ result # <<>>
    /\ char_map # <<>>

\* C19: GetRandomWord is never called on an empty list, and when no secret
\* word was given the secret of the game is a word of the list.
C19_RandomSecretFromStore ==
    /\ ~random_empty
    /\ (pc \in {"prompt", "Not a word", "won", "lost", "eof"}
         /\ opt_secret = <<>>)
           => secret_word \in Range(m_words)

\* A game runs on a random word of a list of several words.
C19_Witness ==
    /\ pc = "prompt"
    /\ opt_secret = <<>>
    /\ Len(m_words) >= 2
    /\ GetWordSize(m_words) >= 2
    /\ secret_word \in Range(m_words)

\* C20: once the constructor has returned, no operation changes the
\* contents or the order of the word list.
C20_StoreReadOnly ==
    [][pc \notin {"new", "main"} => m_words' = m_words]_vars

\* Every operation has been called on a list of several words: a membership
\* query, a random word, an evaluation, a filter, a listing and a game that
\* was played to its end.
C20_Witness ==
    /\ Len(m_words) >= 2
    /\ pc \in {"won", "lost"}
    /\ list_word # <<>>
    /\ guess_ok
    /\ cand_word # <<>>
    /\ list_out # <<>>
    /\ char_map # <<>>

\* The word file holds two words of different lengths.
MixedLengths ==
    \E j, k \in 1..Len(WordLines) :
        TrimLen(WordLines[j]) # TrimLen(WordLines[k])

\* C21: when the word file cannot be opened or holds words of different
\* lengths, the list has no words and main returns 1: no word is listed and
\* no game is started.
C21_FailedLoadExits ==
    (pc # "main" /\ (~is_open \/ MixedLengths)) =>
        /\ GetWordListCount(m_words) = 0
        /\ pc = "exit"
        /\ exit_status = 1
        /\ list_out = <<>> /\ ~list_none
        /\ p_stats.play_count = 0

\* main has returned 1 for a word file of words of one length that did not
\* open, with a listing asked for.
C21_Witness ==
    /\ pc = "exit"
    /\ ~is_open
    /\ Len(WordLines) >= 2 /\ ~MixedLengths
    /\ opt_list
    /\ exit_status = 1
    /\ m_words = <<>>

\* C22: closed form of CheckWordGuess. A position is Matched iff the guess
\* and the secret agree there; otherwise it is Misplaced iff the secret
\* holds the guess letter at a position that is no exact match, and Absent
\* iff it does not.
C22_EvaluatorClosedForm ==
    (pc = "CheckWordGuess" /\ guess_ok) =>
        \A i \in 1..Len(secret_word) :
            result[i] =
                IF guess_word[i] = secret_word[i] THEN res_matched
                ELSE IF \E p \in 1..Len(secret_word) :
                            /\ secret_word[p] = guess_word[i]
                            /\ guess_word[p] # secret_word[p]
                THEN res_mislaid
                ELSE res_missing

\* A guess letter is Absent although the secret holds it, at an exact match,
\* and another guess letter is Misplaced.
C22_Witness ==
    /\ pc = "CheckWordGuess" /\ guess_ok
    /\ \E i, p \in 1..Len(secret_word) :
           /\ guess_word[i] # secret_word[i]
           /\ secret_word[p] = guess_word[i]
           /\ guess_word[p] = secret_word[p]
           /\ result[i] = res_missing
    /\ res_mislaid \in Range(result)

\* C23: the positions of the guess that hold the same letter and are no
\* exact matches all get the same code.
C23_SameLetterSameCode ==
    (pc = "CheckWordGuess" /\ guess_ok) =>
        \A i, j \in 1..Len(guess_word) :
            (/\ guess_word[i] = guess_word[j]
             /\ result[i] # res_matched
             /\ result[j] # res_matched)
                => result[i] = result[j]

\* Two positions of the guess hold a letter that the secret holds once, and
\* both are Misplaced.
C23_Witness ==
    /\ pc = "CheckWordGuess" /\ guess_ok
    /\ \E i, j \in 1..Len(guess_word) :
           /\ i < j
           /\ guess_word[i] = guess_word[j]
           /\ result[i] = res_mislaid /\ result[j] = res_mislaid
           /\ Cardinality(Positions(secret_word, guess_word[i])) = 1

\* A hint that marks a letter Absent at one position and Matched or
\* Misplaced at another.
Contradictory(hint) ==
    \E i, j \in 1..Min({Len(hint[1]), Len(hint[2])}) :
        /\ hint[1][i] = hint[1][j]
        /\ hint[2][i] = res_missing
        /\ hint[2][j] \in {res_matched, res_mislaid}

\* C24: a hint list that holds a hint marking a letter Absent at one
\* position and Matched or Misplaced at another lists no word: the hint is
\* rejected for every word of the list.
C24_ContradictoryHintListsNothing ==
    (pc = "ListWords" /\ \E k \in 1..Len(hint_vect) : Contradictory(hint_vect[k]))
        => list_out = <<>>

\* The nine words of two letters were listed with such a hint alone, and
\* none matched.
C24_Witness ==
    /\ pc = "ListWords"
    /\ Len(m_words) >= 9
    /\ Len(hint_vect) = 1
    /\ Contradictory(hint_vect[1])
    /\ list_status = 0
    /\ list_none

\* The game is running: TerminalPlay waits for a line.
AtPrompt == pc \in {"prompt", "Not a word"}

\* C25: the guess number at a prompt is 1 to 6; the game is won exactly by
\* a valid guess that equals the secret, at guess number 1 to 6, and lost
\* right after the sixth valid guess that is not the secret.
C25_SixValidGuesses ==
    /\ [](AtPrompt => guess_number \in 1..max_guesses)
    /\ [](pc = "won" => /\ guess_ok
                        /\ guess_word = secret_word
                        /\ guess_number \in 1..max_guesses)
    /\ [](pc = "lost" => /\ guess_ok
                         /\ guess_word # secret_word
                         /\ guess_number = max_guesses + 1)
    /\ [][(AtPrompt /\ pc' # "eof" /\ guess_word' \in Range(m_words)
           /\ guess_word' # <<>>)
              => /\ (pc' = "won") = (guess_word' = secret_word)
                 /\ (pc' = "lost") = (/\ guess_word' # secret_word
                                      /\ guess_number = max_guesses)
                 /\ guess_word' # secret_word
                       => guess_number' = guess_number + 1]_vars

\* The game was won by the sixth valid guess.
C25_Witness ==
    /\ pc = "won"
    /\ guess_number = max_guesses
    /\ GetWordSize(m_words) >= 2

\* C26: a secret word given on the command line is checked for its length
\* only. With another length than the word size main returns 1 and no game
\* starts; with the word size the game starts on it, and when it is not in
\* the list the game is never won: it ends lost after six valid guesses or
\* by the end of the input.
C26_SecretCheckedForLengthOnly ==
    (pc # "main" /\ m_words # <<>> /\ ~opt_list /\ opt_secret # <<>>) =>
        IF Len(opt_secret) # GetWordSize(m_words)
        THEN pc = "exit" /\ exit_status = 1 /\ p_stats.play_count = 0
        ELSE /\ pc \in {"prompt", "Not a word", "won", "lost", "eof"}
             /\ secret_word = opt_secret
             /\ opt_secret \notin Range(m_words)
                   => /\ pc # "won"
                      /\ pc = "lost" => guess_number = max_guesses + 1

\* A game on a secret word that is not in the list was lost.
C26_Witness ==
    /\ pc = "lost"
    /\ opt_secret # <<>>
    /\ opt_secret \notin Range(m_words)
    /\ secret_word = opt_secret

\* The sum of the histogram.
RECURSIVE SumTo(_, _)
SumTo(f, n) == IF n = 0 THEN 0 ELSE f[n] + SumTo(f, n - 1)

\* Save wrote the object to the stats file in this step.
Wrote == stats_env'.file = <<p_stats'>>

\* C27: Save writes the stats file and returns 0 whenever the home
\* directory is known, the stats directory exists or can be created, and the
\* file opens; otherwise it returns non-zero and leaves the file alone.
C27_SaveWritesWhenDirPresent ==
    [][pc' = "Save" =>
          IF /\ stats_env.home
             /\ stats_env.dir \in {"exists", "absent"}
             /\ stats_env.openable
          THEN save_ret' = 0 /\ Wrote
          ELSE save_ret' # 0 /\ stats_env'.file = stats_env.file]_vars

\* Save returned 1 and wrote nothing, having created the stats directory.
C27_CreatedNotWritten ==
    /\ pc = "Save"
    /\ save_ret = 1
    /\ stats_env.home /\ stats_env.dir = "exists" /\ stats_env.openable
    /\ stats_env.file = <<>>
    /\ p_stats.play_count > 0

\* C28: cur_streak <= max_streak <= win_count; Win raises win_count and
\* cur_streak by one; Lose sets cur_streak to 0 and leaves play_count,
\* win_count, max_streak and the histogram as they were.
C28_StreakOrder ==
    /\ [](/\ p_stats.cur_streak <= p_stats.max_streak
           /\ p_stats.max_streak <= p_stats.win_count)
    /\ [][pc' = "Win" =>
              /\ p_stats'.win_count = p_stats.win_count + 1
              /\ p_stats'.cur_streak = p_stats.cur_streak + 1]_<<pc, p_stats>>
    /\ [][pc' = "Lose" =>
              /\ p_stats'.cur_streak = 0
              /\ p_stats'.play_count = p_stats.play_count
              /\ p_stats'.win_count = p_stats.win_count
              /\ p_stats'.max_streak = p_stats.max_streak
              /\ p_stats'.guess = p_stats.guess]_vars

\* A streak of two wins was ended by a loss.
C28_Witness ==
    /\ pc = "Lose"
    /\ p_stats.cur_streak = 0
    /\ p_stats.max_streak = MaxStat
    /\ p_stats.win_count = MaxStat

\* C29: Win(guesses) adds one to slot guesses - 1 of the histogram exactly
\* when 1 <= guesses <= max_guesses and leaves every other slot as it was;
\* the histogram keeps its max_guesses slots and its sum never exceeds
\* win_count.
C29_HistogramSlot ==
    /\ [](/\ DOMAIN p_stats.guess = 1..max_guesses
           /\ SumTo(p_stats.guess, max_guesses) <= p_stats.win_count)
    /\ [][pc' = "Win" =>
              /\ DOMAIN p_stats'.guess = 1..max_guesses
              /\ \A k \in 1..max_guesses :
                     p_stats'.guess[k] =
                         IF k = guess_number' THEN p_stats.guess[k] + 1
                         ELSE p_stats.guess[k]]_<<pc, p_stats>>

\* A win in max_guesses + 1 guesses was counted in no slot, after a win that
\* was counted in the last slot.
C29_Witness ==
    /\ pc = "Win"
    /\ guess_number = max_guesses + 1
    /\ p_stats.win_count = 2
    /\ p_stats.guess[max_guesses] = 1
    /\ SumTo(p_stats.guess, max_guesses) = 1

\* C30: a run of TerminalPlay adds one to play_count once, before the first
\* prompt, and nothing else changes the statistics until the game is won or
\* lost; a game won records one Win, a game lost one Lose, and a game that
\* ends with the input records neither.
C30_OneAttemptOneOutcome ==
    /\ [][(pc = "main" /\ pc' = "prompt") =>
              p_stats' = Attempt(Load(ZeroStats(max_guesses), stats_env).stats)]_vars
    /\ [][(AtPrompt /\ pc' \notin {"won", "lost"}) => p_stats' = p_stats]_vars
    /\ [][(AtPrompt /\ pc' = "won") =>
              /\ p_stats'.play_count = p_stats.play_count
              /\ p_stats'.win_count = p_stats.win_count + 1
              /\ p_stats'.cur_streak = p_stats.cur_streak + 1
              /\ SumTo(p_stats'.guess, max_guesses) =
                     SumTo(p_stats.guess, max_guesses) + 1]_vars
    /\ [][(AtPrompt /\ pc' = "lost") =>
              p_stats' = [p_stats EXCEPT !.cur_streak = 0]]_vars
    /\ [](pc \in {"won", "lost", "eof"} => ~(ENABLED NextMain))

\* The input ended after a valid guess in a game that had loaded a stats
\* file: the attempt is counted and the rest is as loaded.
C30_Witness ==
    /\ pc = "eof"
    /\ guess_number > 1
    /\ p_stats = Attempt(SavedStats)
    /\ p_stats.cur_streak = 0 /\ p_stats.win_count = 2

====
